---------------------------- MODULE Spec2Model ----------------------------
(***************************************************************************)
(* Employee salary service: the validated value types and the salary       *)
(* arithmetic of models.rs, the Postgres client of postgres_client.rs      *)
(* (schema initialization, statements, transactions, READ COMMITTED        *)
(* visibility, row and table locks) and the HTTP handlers of server.rs     *)
(* (one shared std::sync::Mutex around the client, taken by every handler, *)
(* on worker threads that each run their requests one segment at a time).  *)
(***************************************************************************)
EXTENDS Integers, Sequences, FiniteSets, TLC

VARIABLES
    \* ---- models.rs exercised on its own (SpecModels)
    mcall,      \* the call made: [op, name, amount, percentage]
    mret,       \* what it returned: [ok, val, err]
    mself,      \* EmployeeSalary.amount of the receiver after the call
    \* ---- the store and the requests (SpecClient, SpecServer)
    schema,     \* whether table employees exists (committed)
    table,      \* committed rows of employees, in id order
    pc,         \* per request slot: where its code stands
    req,        \* per request slot: the request's input
    loc,        \* per request slot: locals of increase_employee_salary
    tx,         \* per request slot: the open transaction's uncommitted UPDATE
    res,        \* per request slot: the client method's Result
    resp,       \* per request slot: the HTTP response
    mutex,      \* holder of the Mutex around the client, 0 when free
    worker,     \* per request slot: the worker thread running the handler
    ncalls,     \* requests started so far
    \* ---- history, read by the properties only
    issued,     \* per request slot: the statements the request has sent
    effect,     \* per request slot: whether the request changed `table`
    before      \* per request slot: salaries stored under its name right
                \* before its own commit

mvars == <<mcall, mret, mself>>
svars == <<schema, table, pc, req, loc, tx, res, resp, mutex, worker, ncalls,
           issued, effect, before>>
vars == <<mcall, mret, mself, schema, table, pc, req, loc, tx, res, resp, mutex,
          worker, ncalls, issued, effect, before>>

-----------------------------------------------------------------------------
(* i32 *)

I32Max == 2147483647
I32Min == -I32Max - 1

None == [some |-> FALSE, v |-> 0]
Some(x) == [some |-> TRUE, v |-> x]

Abs(x) == IF x < 0 THEN -x ELSE x

\* i32::checked_mul: None when the product leaves [I32Min, I32Max].
\* The test never forms a product that is out of range.
checked_mul(a, b) ==
    IF a = 0 \/ b = 0 THEN Some(0)
    ELSE IF a = I32Min \/ b = I32Min
         THEN (IF a = 1 \/ b = 1 THEN Some(I32Min) ELSE None)
    ELSE LET x == Abs(a)
             y == Abs(b)
             q == I32Max \div y
         IN  IF x <= q THEN Some(a * b)
             ELSE IF (a < 0) # (b < 0) /\ q = x - 1 /\ I32Max % y = y - 1
                  THEN Some(I32Min)
             ELSE None

\* i32::checked_add
checked_add(a, b) ==
    IF b > 0 /\ a > I32Max - b THEN None
    ELSE IF b < 0 /\ a < I32Min - b THEN None
    ELSE Some(a + b)

\* i32::checked_sub
checked_sub(a, b) ==
    IF b > 0 /\ a < I32Min + b THEN None
    ELSE IF b < 0 /\ a > I32Max + b THEN None
    ELSE Some(a - b)

\* i32::checked_div: truncates toward zero; None on /0 and on I32Min / -1
checked_div(a, b) ==
    IF b = 0 THEN None
    ELSE IF a = I32Min /\ b = -1 THEN None
    ELSE IF b = I32Min THEN Some(IF a = I32Min THEN 1 ELSE 0)
    ELSE IF a = I32Min
         THEN LET y == Abs(b)
                  q == (I32Max \div y) + (IF I32Max % y = y - 1 THEN 1 ELSE 0)
              IN  Some(IF b < 0 THEN q ELSE -q)
    ELSE LET q == Abs(a) \div Abs(b)
         IN  Some(IF (a < 0) # (b < 0) THEN -q ELSE q)

-----------------------------------------------------------------------------
(* models.rs *)

MsgName == "employee name cannot consist of whitespaces or have zero length"
MsgSalary == "employee's salary cannot be less than or equal to zero"
MsgPercentage == "salary percentage increase cannot be less than or equal to zero"
MsgTooHigh == "employee's salary is too high to perform math operations"
MsgTooLow == "employee's salary is too low to perform math operations"

NoVal == [name |-> <<>>, amount |-> 0, percentage |-> 0]
Ok(v) == [ok |-> TRUE, val |-> v, err |-> ""]
Err(m) == [ok |-> FALSE, val |-> NoVal, err |-> m]

\* A name is a sequence of characters.
WhiteSpace == {" "}

\* str::trim: the name without its leading and trailing whitespace
RECURSIVE TrimStart(_)
TrimStart(s) ==
    IF s # <<>> /\ Head(s) \in WhiteSpace THEN TrimStart(Tail(s)) ELSE s

RECURSIVE TrimEnd(_)
TrimEnd(s) ==
    IF s # <<>> /\ s[Len(s)] \in WhiteSpace
    THEN TrimEnd(SubSeq(s, 1, Len(s) - 1))
    ELSE s

trim(s) == TrimEnd(TrimStart(s))

\* as check_name, testing name.is_empty() without trim()
check_name_untrimmed(name) ==
    IF name = <<>> THEN Err(MsgName) ELSE Ok(NoVal)

check_name(name) ==
    IF trim(name) = <<>> THEN Err(MsgName) ELSE Ok(NoVal)

check_salary(salary) ==
    IF salary <= 0 THEN Err(MsgSalary) ELSE Ok(NoVal)

check_percentage(percentage) ==
    IF percentage <= 0 THEN Err(MsgPercentage) ELSE Ok(NoVal)

\* UncheckedEmployeeName::check
UncheckedEmployeeName_check(raw) ==
    IF ~check_name(raw.name).ok THEN check_name(raw.name)
    ELSE Ok([NoVal EXCEPT !.name = raw.name])

\* UncheckedEmployeeSalary::check
UncheckedEmployeeSalary_check(raw) ==
    IF ~check_salary(raw.amount).ok THEN check_salary(raw.amount)
    ELSE Ok([NoVal EXCEPT !.amount = raw.amount])

\* as UncheckedEmployeeData::check, the salary left unchecked
UncheckedEmployeeData_check_name_only(raw) ==
    IF ~check_name(raw.name).ok THEN check_name(raw.name)
    ELSE Ok([NoVal EXCEPT !.name = raw.name, !.amount = raw.amount])

\* UncheckedEmployeeData::check (its field `salary` is kept in `amount`)
UncheckedEmployeeData_check(raw) ==
    IF ~check_name(raw.name).ok THEN check_name(raw.name)
    ELSE IF ~check_salary(raw.amount).ok THEN check_salary(raw.amount)
    ELSE Ok([NoVal EXCEPT !.name = raw.name, !.amount = raw.amount])

\* UncheckedSalaryMultiplier::check
UncheckedSalaryMultiplier_check(raw) ==
    IF ~check_name(raw.name).ok THEN check_name(raw.name)
    ELSE IF ~check_percentage(raw.percentage).ok
         THEN check_percentage(raw.percentage)
    ELSE Ok([NoVal EXCEPT !.name = raw.name, !.percentage = raw.percentage])

\* i32::saturating_add
saturating_add(a, b) ==
    IF checked_add(a, b).some THEN checked_add(a, b)
    ELSE Some(IF b > 0 THEN I32Max ELSE I32Min)

\* as increase_by_percentage, dividing without the + 100 - 1 that rounds up
increase_by_percentage_truncating(amount, percentage) ==
    LET old_salary == amount
        m == checked_mul(old_salary, percentage)
    IN  IF ~m.some THEN [ret |-> Err(MsgTooHigh), self |-> amount]
        ELSE
        LET a == checked_add(m.v, 0)
        IN  IF ~a.some THEN [ret |-> Err(MsgTooHigh), self |-> amount]
            ELSE
            LET s == checked_sub(a.v, 0)
            IN  IF ~s.some THEN [ret |-> Err(MsgTooLow), self |-> amount]
                ELSE
                LET d == checked_div(s.v, 100)
                IN  IF ~d.some THEN [ret |-> Err(MsgTooLow), self |-> amount]
                    ELSE
                    LET n == checked_add(amount, d.v)
                    IN  IF ~n.some
                        THEN [ret |-> Err(MsgTooHigh), self |-> amount]
                        ELSE IF ~check_salary(n.v).ok
                        THEN [ret |-> check_salary(n.v), self |-> n.v]
                        ELSE [ret |-> Ok([NoVal EXCEPT !.amount = old_salary]),
                              self |-> n.v]

\* as increase_by_percentage, the last addition a saturating_add
increase_by_percentage_saturating(amount, percentage) ==
    LET old_salary == amount
        m == checked_mul(old_salary, percentage)
    IN  IF ~m.some THEN [ret |-> Err(MsgTooHigh), self |-> amount]
        ELSE
        LET a == checked_add(m.v, 100)
        IN  IF ~a.some THEN [ret |-> Err(MsgTooHigh), self |-> amount]
            ELSE
            LET s == checked_sub(a.v, 1)
            IN  IF ~s.some THEN [ret |-> Err(MsgTooLow), self |-> amount]
                ELSE
                LET d == checked_div(s.v, 100)
                IN  IF ~d.some THEN [ret |-> Err(MsgTooLow), self |-> amount]
                    ELSE
                    LET n == saturating_add(amount, d.v)
                    IN  IF ~n.some
                        THEN [ret |-> Err(MsgTooHigh), self |-> amount]
                        ELSE IF ~check_salary(n.v).ok
                        THEN [ret |-> check_salary(n.v), self |-> n.v]
                        ELSE [ret |-> Ok([NoVal EXCEPT !.amount = old_salary]),
                              self |-> n.v]

\* EmployeeSalary::increase_by_percentage(&mut self, percent): the pair
\* [ret |-> the Result, self |-> self.amount when it returns]
increase_by_percentage(amount, percentage) ==
    LET old_salary == amount
        m == checked_mul(old_salary, percentage)
    IN  IF ~m.some THEN [ret |-> Err(MsgTooHigh), self |-> amount]
        ELSE
        LET a == checked_add(m.v, 100)
        IN  IF ~a.some THEN [ret |-> Err(MsgTooHigh), self |-> amount]
            ELSE
            LET s == checked_sub(a.v, 1)
            IN  IF ~s.some THEN [ret |-> Err(MsgTooLow), self |-> amount]
                ELSE
                LET d == checked_div(s.v, 100)
                IN  IF ~d.some THEN [ret |-> Err(MsgTooLow), self |-> amount]
                    ELSE
                    LET n == checked_add(amount, d.v)
                    IN  IF ~n.some
                        THEN [ret |-> Err(MsgTooHigh), self |-> amount]
                        ELSE IF ~check_salary(n.v).ok
                        THEN [ret |-> check_salary(n.v), self |-> n.v]
                        ELSE [ret |-> Ok([NoVal EXCEPT !.amount = old_salary]),
                              self |-> n.v]

-----------------------------------------------------------------------------
(* models.rs exercised on its own: every check and the salary arithmetic,  *)
(* each applied to inputs drawn from bounded sets.                         *)

MaxNameLen == 2
Chars == {" ", "a", "A"}

RECURSIVE SeqsUpTo(_)
SeqsUpTo(n) ==
    IF n = 0 THEN {<<>>}
    ELSE LET shorter == SeqsUpTo(n - 1)
         IN  shorter \cup {Append(s, c) : s \in shorter, c \in Chars}

NameInputs == SeqsUpTo(MaxNameLen)
AmountInputs == {-320, 0, 1, 3, 100, 1000, 5000, 21474836, 21474837,
                 2147483000, 2147483600, I32Max}
PercentageInputs == {-200, -32, 0, 1, 25, 50, 100, 200, 2147483600, I32Max}

NoCall == [op |-> "none", name |-> <<>>, amount |-> 0, percentage |-> 0]
Raw(n, a, pct) == [name |-> n, amount |-> a, percentage |-> pct]

CallNameCheck ==
    \E n \in NameInputs :
        /\ mcall' = [NoCall EXCEPT !.op = "UncheckedEmployeeName::check",
                                   !.name = n]
        /\ mret' = UncheckedEmployeeName_check(Raw(n, 0, 0))
        /\ mself' = 0
        /\ UNCHANGED svars

CallSalaryCheck ==
    \E a \in AmountInputs :
        /\ mcall' = [NoCall EXCEPT !.op = "UncheckedEmployeeSalary::check",
                                   !.amount = a]
        /\ mret' = UncheckedEmployeeSalary_check(Raw(<<>>, a, 0))
        /\ mself' = 0
        /\ UNCHANGED svars

CallDataCheck ==
    \E n \in NameInputs, a \in AmountInputs :
        /\ mcall' = [NoCall EXCEPT !.op = "UncheckedEmployeeData::check",
                                   !.name = n, !.amount = a]
        /\ mret' = UncheckedEmployeeData_check(Raw(n, a, 0))
        /\ mself' = 0
        /\ UNCHANGED svars

CallMultiplierCheck ==
    \E n \in NameInputs, pct \in PercentageInputs :
        /\ mcall' = [NoCall EXCEPT !.op = "UncheckedSalaryMultiplier::check",
                                   !.name = n, !.percentage = pct]
        /\ mret' = UncheckedSalaryMultiplier_check(Raw(n, 0, pct))
        /\ mself' = 0
        /\ UNCHANGED svars

CallIncrease ==
    \E a \in AmountInputs, pct \in PercentageInputs :
        LET r == increase_by_percentage(a, pct)
        IN  /\ mcall' = [NoCall EXCEPT !.op = "increase_by_percentage",
                                       !.amount = a, !.percentage = pct]
            /\ mret' = r.ret
            /\ mself' = r.self
            /\ UNCHANGED svars

InitModels ==
    /\ mcall = NoCall
    /\ mret = Ok(NoVal)
    /\ mself = 0

NextModels ==
    \/ CallNameCheck
    \/ CallSalaryCheck
    \/ CallDataCheck
    \/ CallMultiplierCheck
    \/ CallIncrease

-----------------------------------------------------------------------------
(* The store: table employees (id SERIAL, name, salary) in Postgres.       *)
(* A row also carries history: the salary it was inserted with and the     *)
(* percentages of the increases committed on it, in commit order.          *)

NumProcs == 2
MaxCalls == 3
MaxRequests == 2
NumWorkers == 2

Procs == 1 .. NumProcs
Workers == 1 .. NumWorkers

\* sqlx::Error as the caller sees it: fetch_one on no row, and any failure
\* of the connection or the server
MsgRowNotFound == "no rows returned by a query that expected to return at least one row"
MsgStorage == "error communicating with database"

Row(n, s) == [name |-> n, salary |-> s, orig |-> s, hist |-> <<>>]

Lower(c) == IF c = "A" THEN "a" ELSE c
LowerName(n) == [k \in DOMAIN n |-> Lower(n[k])]

\* as Matching, the comparison ignoring case
Matching_ignoring_case(n) ==
    {i \in DOMAIN table : LowerName(table[i].name) = LowerName(n)}

\* ids of the committed rows WHERE name = $1 (exact comparison)
Matching(n) == {i \in DOMAIN table : table[i].name = n}

NoTx == [open |-> FALSE, rows |-> {}, salary |-> 0]
NoLoc == [amount |-> 0, old |-> 0]
NoReq == [op |-> "none", via |-> "none", name |-> <<>>, amount |-> 0,
          percentage |-> 0]
NoResp == [status |-> 0, text |-> "", number |-> 0]

\* rows locked by the uncommitted UPDATE of a transaction other than p's
LockedByOther(p) == UNION {tx[q].rows : q \in Procs \ {p}}

\* as FetchOne, the SELECT without its WHERE clause
FetchOne_any_row(n) ==
    {Err(MsgStorage)} \cup
    (IF ~schema THEN {}
     ELSE IF table = <<>> THEN {Err(MsgRowNotFound)}
     ELSE {Ok([NoVal EXCEPT !.amount = table[i].salary]) : i \in DOMAIN table})

\* fetch_one of SELECT salary AS amount FROM employees WHERE name = $1:
\* every Result it can produce. Without ORDER BY the row returned first is
\* any of the matching rows. Without the table the statement fails.
FetchOne(n) ==
    {Err(MsgStorage)} \cup
    (IF ~schema THEN {}
     ELSE IF Matching(n) = {} THEN {Err(MsgRowNotFound)}
     ELSE {Ok([NoVal EXCEPT !.amount = table[i].salary]) : i \in Matching(n)})

\* any other statement: it is carried out or it fails
Execute == {Ok(NoVal), Err(MsgStorage)}

\* INSERT and UPDATE: they fail without the table
ExecuteOnTable == IF schema THEN Execute ELSE {Err(MsgStorage)}

\* TRUNCATE holds an ACCESS EXCLUSIVE lock on the table until its
\* transaction ends: the statements of others on the table wait
TableLocked(p) == \E q \in Procs \ {p} : pc[q] = "clear_commit"

\* a transaction other than p's has read or written the table and is open
TableInUse(p) ==
    \E q \in Procs \ {p} : pc[q] \in {"inc_update", "inc_commit", "clear_commit"}

\* CREATE TABLE waits for the uncommitted CREATE TABLE of another transaction
CreateWaits(p) ==
    ~schema /\ \E q \in Procs \ {p} : pc[q] \in {"clear_truncate", "clear_commit"}

\* history kept by a step of request p
Sent(p, stmt) == issued' = [issued EXCEPT ![p] = Append(@, stmt)]
Effect(p) == effect' = [effect EXCEPT ![p] = @ \/ (table' # table)]

\* a handler's code runs on its worker thread: it cannot run while that
\* thread is blocked inside Mutex::lock() on behalf of another request, nor
\* while the thread is between lock() and the next await of another request
ThreadBlocked(p) ==
    /\ req[p].via = "http"
    /\ \E q \in Procs \ {p} :
        /\ pc[q] \in {"h_blocked", "h_check"}
        /\ worker[q] = worker[p]

\* the client method of request p returns r to its caller
Return(p, r) ==
    /\ res' = [res EXCEPT ![p] = r]
    /\ pc' = [pc EXCEPT ![p] = "returned"]

(* DBClientPostgres::get_employee_salary *)
get_employee_salary(p) ==
    /\ pc[p] = "get_fetch"
    /\ ~ThreadBlocked(p)
    /\ ~TableLocked(p)
    /\ \E r \in FetchOne(req[p].name) :
        Return(p, IF r.ok THEN UncheckedEmployeeSalary_check(r.val) ELSE r)
    /\ Sent(p, "SELECT")
    /\ UNCHANGED <<mvars, schema, table, req, loc, tx, resp, mutex, worker, ncalls, effect,
                   before>>

\* as add_new_employee, with a unique constraint on name: the INSERT of a
\* name already stored fails
add_new_employee_unique(p) ==
    /\ pc[p] = "add_execute"
    /\ ~ThreadBlocked(p)
    /\ ~TableLocked(p)
    /\ \E r \in (IF Matching(req[p].name) = {} THEN ExecuteOnTable
                ELSE {Err(MsgStorage)}) :
        /\ table' = IF r.ok
                    THEN Append(table, Row(req[p].name, req[p].amount))
                    ELSE table
        /\ Return(p, r)
    /\ Sent(p, "INSERT")
    /\ Effect(p)
    /\ UNCHANGED <<mvars, schema, req, loc, tx, resp, mutex, worker, ncalls, before>>

(* DBClientPostgres::add_new_employee *)
add_new_employee(p) ==
    /\ pc[p] = "add_execute"
    /\ ~ThreadBlocked(p)
    /\ ~TableLocked(p)
    /\ \E r \in ExecuteOnTable :
        /\ table' = IF r.ok
                    THEN Append(table, Row(req[p].name, req[p].amount))
                    ELSE table
        /\ Return(p, r)
    /\ Sent(p, "INSERT")
    /\ Effect(p)
    /\ UNCHANGED <<mvars, schema, req, loc, tx, resp, mutex, worker, ncalls, before>>

(* DBClientPostgres::increase_employee_salary, one action per await *)

\* let mut tx = self.inner_client.begin().await?;
increase_begin(p) ==
    /\ pc[p] = "inc_begin"
    /\ ~ThreadBlocked(p)
    /\ \E r \in Execute :
        IF r.ok
        THEN /\ tx' = [tx EXCEPT ![p] = [NoTx EXCEPT !.open = TRUE]]
             /\ pc' = [pc EXCEPT ![p] = "inc_select"]
             /\ res' = res
        ELSE /\ tx' = tx
             /\ Return(p, r)
    /\ Sent(p, "BEGIN")
    /\ UNCHANGED <<mvars, schema, table, req, loc, resp, mutex, worker, ncalls, effect,
                   before>>

\* fetch_one(&mut *tx).await?, employee_salary_raw.check()? and
\* employee_salary.increase_by_percentage(&data)?; a `?` that returns drops
\* tx, which rolls the transaction back
increase_select(p) ==
    /\ pc[p] = "inc_select"
    /\ ~ThreadBlocked(p)
    /\ ~TableLocked(p)
    /\ \E r \in FetchOne(req[p].name) :
        LET checked == IF r.ok THEN UncheckedEmployeeSalary_check(r.val) ELSE r
            inc == increase_by_percentage(checked.val.amount,
                                          req[p].percentage)
        IN  IF checked.ok /\ inc.ret.ok
            THEN /\ loc' = [loc EXCEPT ![p] = [amount |-> inc.self,
                                               old |-> inc.ret.val.amount]]
                 /\ pc' = [pc EXCEPT ![p] = "inc_update"]
                 /\ UNCHANGED <<tx, res>>
            ELSE /\ tx' = [tx EXCEPT ![p] = NoTx]
                 /\ Return(p, IF checked.ok THEN inc.ret ELSE checked)
                 /\ loc' = loc
    /\ Sent(p, "SELECT")
    /\ UNCHANGED <<mvars, schema, table, req, resp, mutex, worker, ncalls, effect, before>>

\* as increase_update, the UPDATE executed on the pool, outside tx: it is
\* committed at once
increase_update_outside_tx(p) ==
    /\ pc[p] = "inc_update"
    /\ ~ThreadBlocked(p)
    /\ ~TableLocked(p)
    /\ \E r \in ExecuteOnTable :
        IF r.ok
        THEN /\ Matching(req[p].name) \cap LockedByOther(p) = {}
             /\ table' = [i \in DOMAIN table |->
                            IF i \in Matching(req[p].name)
                            THEN [table[i] EXCEPT
                                    !.salary = loc[p].amount,
                                    !.hist = Append(@, req[p].percentage)]
                            ELSE table[i]]
             /\ pc' = [pc EXCEPT ![p] = "inc_commit"]
             /\ UNCHANGED <<tx, res>>
        ELSE /\ tx' = [tx EXCEPT ![p] = NoTx]
             /\ table' = table
             /\ Return(p, r)
    /\ Sent(p, "UPDATE")
    /\ Effect(p)
    /\ UNCHANGED <<mvars, schema, req, loc, resp, mutex, worker, ncalls, before>>

\* as increase_update, the UPDATE without its WHERE clause
increase_update_every_row(p) ==
    /\ pc[p] = "inc_update"
    /\ ~ThreadBlocked(p)
    /\ ~TableLocked(p)
    /\ \E r \in ExecuteOnTable :
        IF r.ok
        THEN /\ DOMAIN table \cap LockedByOther(p) = {}
             /\ tx' = [tx EXCEPT ![p] = [open |-> TRUE,
                                         rows |-> DOMAIN table,
                                         salary |-> loc[p].amount]]
             /\ pc' = [pc EXCEPT ![p] = "inc_commit"]
             /\ res' = res
        ELSE /\ tx' = [tx EXCEPT ![p] = NoTx]
             /\ Return(p, r)
    /\ Sent(p, "UPDATE")
    /\ UNCHANGED <<mvars, schema, table, req, loc, resp, mutex, worker, ncalls,
                   effect, before>>

\* UPDATE employees SET salary = $1 WHERE name = $2 inside tx: it waits for
\* the row locks of other transactions, then locks and rewrites every row of
\* that name; the new versions stay invisible to others until the commit
increase_update(p) ==
    /\ pc[p] = "inc_update"
    /\ ~ThreadBlocked(p)
    /\ ~TableLocked(p)
    /\ \E r \in ExecuteOnTable :
        IF r.ok
        THEN /\ Matching(req[p].name) \cap LockedByOther(p) = {}
             /\ tx' = [tx EXCEPT ![p] = [open |-> TRUE,
                                         rows |-> Matching(req[p].name),
                                         salary |-> loc[p].amount]]
             /\ pc' = [pc EXCEPT ![p] = "inc_commit"]
             /\ res' = res
        ELSE /\ tx' = [tx EXCEPT ![p] = NoTx]
             /\ Return(p, r)
    /\ Sent(p, "UPDATE")
    /\ UNCHANGED <<mvars, schema, table, req, loc, resp, mutex, worker, ncalls, effect,
                   before>>

\* the rows of tbl with the uncommitted UPDATE t of percentage pct applied
Committed(tbl, t, pct) ==
    [i \in DOMAIN tbl |->
        IF i \in t.rows
        THEN [tbl[i] EXCEPT !.salary = t.salary, !.hist = Append(@, pct)]
        ELSE tbl[i]]

\* tx.commit().await?; Ok(old_employee_salary)
increase_commit(p) ==
    /\ pc[p] = "inc_commit"
    /\ ~ThreadBlocked(p)
    /\ \E r \in Execute :
        /\ table' = IF r.ok THEN Committed(table, tx[p], req[p].percentage)
                    ELSE table
        /\ Return(p, IF r.ok THEN Ok([NoVal EXCEPT !.amount = loc[p].old])
                     ELSE r)
        /\ before' = [before EXCEPT ![p] =
                        IF r.ok
                        THEN {table[i].salary : i \in Matching(req[p].name)}
                        ELSE @]
    /\ tx' = [tx EXCEPT ![p] = NoTx]
    /\ Sent(p, "COMMIT")
    /\ Effect(p)
    /\ UNCHANGED <<mvars, schema, req, loc, resp, mutex, worker, ncalls>>

(* DBClientPostgres::init_db *)

\* as init_db, the table emptied as well
init_db_truncating(p) ==
    /\ pc[p] = "init_create"
    /\ ~CreateWaits(p)
    /\ \E r \in Execute :
        /\ schema' = (schema \/ r.ok)
        /\ table' = IF r.ok THEN <<>> ELSE table
        /\ Return(p, r)
    /\ Sent(p, "CREATE")
    /\ Effect(p)
    /\ UNCHANGED <<mvars, req, loc, tx, resp, mutex, worker, ncalls, before>>

\* CREATE TABLE IF NOT EXISTS employees (..) executed on the pool: the table
\* exists once the statement has succeeded, its rows are not touched
init_db(p) ==
    /\ pc[p] = "init_create"
    /\ ~CreateWaits(p)
    /\ \E r \in Execute :
        /\ schema' = (schema \/ r.ok)
        /\ table' = table
        /\ Return(p, r)
    /\ Sent(p, "CREATE")
    /\ Effect(p)
    /\ UNCHANGED <<mvars, req, loc, tx, resp, mutex, worker, ncalls, before>>

(* DBClientPostgres::init_db_clear, one action per await; a `?` that       *)
(* returns drops tx, which rolls back the CREATE and the TRUNCATE           *)

\* a statement of init_db_clear failed, or succeeded and leads to pc `next`
ClearStep(p, r, next) ==
    IF r.ok
    THEN /\ pc' = [pc EXCEPT ![p] = next]
         /\ UNCHANGED <<tx, res>>
    ELSE /\ tx' = [tx EXCEPT ![p] = NoTx]
         /\ Return(p, r)

\* let mut tx = self.inner_client.begin().await?;
clear_begin(p) ==
    /\ pc[p] = "clear_begin"
    /\ \E r \in Execute :
        IF r.ok
        THEN /\ tx' = [tx EXCEPT ![p] = [NoTx EXCEPT !.open = TRUE]]
             /\ pc' = [pc EXCEPT ![p] = "clear_create"]
             /\ res' = res
        ELSE /\ tx' = tx
             /\ Return(p, r)
    /\ Sent(p, "BEGIN")
    /\ UNCHANGED <<mvars, schema, table, req, loc, resp, mutex, worker, ncalls,
                   effect, before>>

\* CREATE TABLE IF NOT EXISTS employees (..) inside tx
clear_create(p) ==
    /\ pc[p] = "clear_create"
    /\ ~CreateWaits(p)
    /\ \E r \in Execute : ClearStep(p, r, "clear_truncate")
    /\ Sent(p, "CREATE")
    /\ UNCHANGED <<mvars, schema, table, req, loc, resp, mutex, worker, ncalls,
                   effect, before>>

\* TRUNCATE TABLE employees inside tx: it waits until no other transaction
\* uses the table
clear_truncate(p) ==
    /\ pc[p] = "clear_truncate"
    /\ ~TableInUse(p)
    /\ \E r \in Execute : ClearStep(p, r, "clear_commit")
    /\ Sent(p, "TRUNCATE")
    /\ UNCHANGED <<mvars, schema, table, req, loc, resp, mutex, worker, ncalls,
                   effect, before>>

\* tx.commit().await?; Ok(()): the table exists and holds no row
clear_commit(p) ==
    /\ pc[p] = "clear_commit"
    /\ \E r \in Execute :
        /\ schema' = (schema \/ r.ok)
        /\ table' = IF r.ok THEN <<>> ELSE table
        /\ Return(p, r)
    /\ tx' = [tx EXCEPT ![p] = NoTx]
    /\ Sent(p, "COMMIT")
    /\ Effect(p)
    /\ UNCHANGED <<mvars, req, loc, resp, mutex, worker, ncalls, before>>

\* where each client method starts
Entry(op) ==
    CASE op = "get" -> "get_fetch"
      [] op = "add" -> "add_execute"
      [] op = "increase" -> "inc_begin"
      [] op = "init_db" -> "init_create"
      [] op = "init_db_clear" -> "clear_begin"

-----------------------------------------------------------------------------
(* Callers of the client. A request slot runs one request at a time.       *)

\* checked values passed to the client directly
ClientNames == {<<"a">>, <<"A">>}
ClientSalaries == {100, 5000}
ClientPercentages == {10, 25, I32Max}

\* what the query string of a request carries
RawNames == {<<"a">>, <<"A">>, <<" ">>}
RawSalaries == {100, 0}
RawPercentages == {25, I32Max, -31}

Ops == {"get", "add", "increase"}

\* the inputs of a request of kind op, the unused fields left at 0
Inputs(op, names, salaries, percentages) ==
    {[NoReq EXCEPT !.op = op, !.name = n, !.amount = a, !.percentage = pct] :
        n \in names,
        a \in IF op = "add" THEN salaries ELSE {0},
        pct \in IF op = "increase" THEN percentages ELSE {0}}

Fresh(p) ==
    /\ issued' = [issued EXCEPT ![p] = <<>>]
    /\ effect' = [effect EXCEPT ![p] = FALSE]
    /\ before' = [before EXCEPT ![p] = {}]

\* the calls made while the store is set up: the two initializations, and
\* add and get to put records in and see them
SetupOps == {"init_db", "init_db_clear", "add", "get"}
SetupNames == {<<"a">>}

SetupCall(p) ==
    /\ pc[p] = "idle"
    /\ ncalls < MaxCalls
    /\ \E op \in SetupOps :
        \E r \in Inputs(op, IF op \in {"add", "get"} THEN SetupNames ELSE {<<>>},
                         ClientSalaries, ClientPercentages) :
            /\ req' = [req EXCEPT ![p] = [r EXCEPT !.via = "direct"]]
            /\ pc' = [pc EXCEPT ![p] = Entry(op)]
    /\ ncalls' = ncalls + 1
    /\ Fresh(p)
    /\ UNCHANGED <<mvars, schema, table, loc, tx, res, resp, mutex, worker>>

\* a method of DBClientPostgres called directly with checked values, as the
\* tests of postgres_client.rs and server.rs do; calls run concurrently on
\* the connections of the pool
DirectCall(p) ==
    /\ pc[p] = "idle"
    /\ ncalls < MaxCalls
    /\ \E op \in Ops :
        \E r \in Inputs(op, ClientNames, ClientSalaries, ClientPercentages) :
            /\ req' = [req EXCEPT ![p] = [r EXCEPT !.via = "direct"]]
            /\ pc' = [pc EXCEPT ![p] = Entry(op)]
    /\ ncalls' = ncalls + 1
    /\ Fresh(p)
    /\ UNCHANGED <<mvars, schema, table, loc, tx, res, resp, mutex, worker>>

\* init_db called while the client is in use, as Server::start does before
\* serving
DirectInitCall(p) ==
    /\ pc[p] = "idle"
    /\ ncalls < MaxCalls
    /\ req' = [req EXCEPT ![p] = [NoReq EXCEPT !.op = "init_db",
                                               !.via = "direct"]]
    /\ pc' = [pc EXCEPT ![p] = Entry("init_db")]
    /\ ncalls' = ncalls + 1
    /\ Fresh(p)
    /\ UNCHANGED <<mvars, schema, table, loc, tx, res, resp, mutex, worker>>

\* the slot is free again
Release(p) ==
    /\ pc' = [pc EXCEPT ![p] = "idle"]
    /\ req' = [req EXCEPT ![p] = NoReq]
    /\ loc' = [loc EXCEPT ![p] = NoLoc]
    /\ res' = [res EXCEPT ![p] = Ok(NoVal)]
    /\ resp' = [resp EXCEPT ![p] = NoResp]
    /\ worker' = [worker EXCEPT ![p] = 0]
    /\ Fresh(p)

DirectReturn(p) ==
    /\ pc[p] = "returned"
    /\ req[p].via = "direct"
    /\ Release(p)
    /\ UNCHANGED <<mvars, schema, table, tx, mutex, ncalls>>

(* server.rs: the three handlers share one shape *)

\* the requests sent to the server: the plain request of each kind (name "a",
\* salary 100, percentage 25) and those that differ from it in one field
OneFieldOff(r) ==
    \/ r.name = <<"a">>
    \/ /\ r.op = "add" => r.amount = 100
       /\ r.op = "increase" => r.percentage = 25

RawRequests(op) ==
    {r \in Inputs(op, RawNames, RawSalaries, RawPercentages) : OneFieldOff(r)}

\* the worker threads a new request can land on: one that is running
\* requests already, or a thread running none; the threads running none are
\* alike, the lowest stands for them
Running(w) == \E q \in Procs : worker[q] = w
ArrivalWorkers ==
    {w \in Workers : Running(w) \/ \A v \in Workers : v < w => Running(v)}

\* a request reaches one of the server's worker threads
HttpArrive(p) ==
    /\ pc[p] = "idle"
    /\ ncalls < MaxRequests
    /\ \E op \in Ops, w \in ArrivalWorkers :
        \E r \in RawRequests(op) :
            /\ req' = [req EXCEPT ![p] = [r EXCEPT !.via = "http"]]
            /\ worker' = [worker EXCEPT ![p] = w]
    /\ pc' = [pc EXCEPT ![p] = "h_lock"]
    /\ ncalls' = ncalls + 1
    /\ Fresh(p)
    /\ UNCHANGED <<mvars, schema, table, loc, tx, res, resp, mutex>>

\* as handler_lock, lock() returning at once also while the Mutex is held
handler_lock_no_wait(p) ==
    /\ pc[p] = "h_lock"
    /\ ~ThreadBlocked(p)
    /\ mutex' = p
    /\ pc' = [pc EXCEPT ![p] = "h_check"]
    /\ UNCHANGED <<mvars, schema, table, req, loc, tx, res, resp, worker, ncalls, issued,
                   effect, before>>

\* let db_client = db_client.lock().unwrap(); std::sync::Mutex::lock blocks
\* the calling thread while another request holds the lock
handler_lock(p) ==
    /\ pc[p] = "h_lock"
    /\ ~ThreadBlocked(p)
    /\ IF mutex = 0
       THEN /\ mutex' = p
            /\ pc' = [pc EXCEPT ![p] = "h_check"]
       ELSE /\ mutex' = mutex
            /\ pc' = [pc EXCEPT ![p] = "h_blocked"]
    /\ UNCHANGED <<mvars, schema, table, req, loc, tx, res, resp, worker, ncalls, issued,
                   effect, before>>

\* the blocked lock() returns once the lock is free
handler_lock_wake(p) ==
    /\ pc[p] = "h_blocked"
    /\ mutex = 0
    /\ mutex' = p
    /\ pc' = [pc EXCEPT ![p] = "h_check"]
    /\ UNCHANGED <<mvars, schema, table, req, loc, tx, res, resp, worker, ncalls, issued,
                   effect, before>>

\* as handler_input_check, add_new_employee checking the name only
handler_input_check_name_only(r) ==
    CASE r.op = "get" -> UncheckedEmployeeName_check(r)
      [] r.op = "add" -> UncheckedEmployeeName_check(r)
      [] r.op = "increase" -> UncheckedSalaryMultiplier_check(r)

\* query.into_inner().check() of the handler for op
handler_input_check(r) ==
    CASE r.op = "get" -> UncheckedEmployeeName_check(r)
      [] r.op = "add" -> UncheckedEmployeeData_check(r)
      [] r.op = "increase" -> UncheckedSalaryMultiplier_check(r)

BadRequest(msg) == [status |-> 400, text |-> msg, number |-> 0]
OkText(msg) == [status |-> 200, text |-> msg, number |-> 0]
OkNumber(n) == [status |-> 200, text |-> "", number |-> n]

\* match query.into_inner().check() { Ok(..) => .., Err(e) => return
\* HttpResponse::BadRequest().body(format!("{e}")) }; returning drops the guard
handler_check(p) ==
    /\ pc[p] = "h_check"
    /\ ~ThreadBlocked(p)
    /\ LET c == handler_input_check(req[p])
       IN  IF c.ok
           THEN /\ pc' = [pc EXCEPT ![p] = Entry(req[p].op)]
                /\ UNCHANGED <<resp, mutex>>
           ELSE /\ pc' = [pc EXCEPT ![p] = "h_done"]
                /\ resp' = [resp EXCEPT ![p] = BadRequest(c.err)]
                /\ mutex' = 0
    /\ UNCHANGED <<mvars, schema, table, req, loc, tx, res, worker, ncalls, issued, effect,
                   before>>

\* as handler_response, a missing row answered with 404 Not Found
handler_response_not_found(op, r) ==
    IF ~r.ok /\ r.err = MsgRowNotFound
    THEN [status |-> 404, text |-> r.err, number |-> 0]
    ELSE IF ~r.ok THEN BadRequest(r.err)
    ELSE IF op = "add" THEN OkText("Successfully added new employee")
    ELSE OkNumber(r.val.amount)

\* the response each handler builds from the client's Result
handler_response(op, r) ==
    IF ~r.ok THEN BadRequest(r.err)
    ELSE IF op = "add" THEN OkText("Successfully added new employee")
    ELSE OkNumber(r.val.amount)

\* match db_client.<method>(..).await { Ok(..) => HttpResponse::Ok()..,
\* Err(e) => HttpResponse::BadRequest().body(format!("{e}")) }; the guard is
\* dropped as the handler returns
handler_respond(p) ==
    /\ pc[p] = "returned"
    /\ req[p].via = "http"
    /\ ~ThreadBlocked(p)
    /\ resp' = [resp EXCEPT ![p] = handler_response(req[p].op, res[p])]
    /\ mutex' = 0
    /\ pc' = [pc EXCEPT ![p] = "h_done"]
    /\ UNCHANGED <<mvars, schema, table, req, loc, tx, res, worker, ncalls, issued, effect,
                   before>>

\* the response has been sent
HttpComplete(p) ==
    /\ pc[p] = "h_done"
    /\ Release(p)
    /\ UNCHANGED <<mvars, schema, table, tx, mutex, ncalls>>

-----------------------------------------------------------------------------
(* Specifications *)

\* no request has been made
InitSlots ==
    /\ pc = [p \in Procs |-> "idle"]
    /\ req = [p \in Procs |-> NoReq]
    /\ loc = [p \in Procs |-> NoLoc]
    /\ tx = [p \in Procs |-> NoTx]
    /\ res = [p \in Procs |-> Ok(NoVal)]
    /\ resp = [p \in Procs |-> NoResp]
    /\ mutex = 0
    /\ worker = [p \in Procs |-> 0]
    /\ ncalls = 0
    /\ issued = [p \in Procs |-> <<>>]
    /\ effect = [p \in Procs |-> FALSE]
    /\ before = [p \in Procs |-> {}]

\* DBClientPostgres after init_db_clear: the table is empty
InitStore == schema = TRUE /\ table = <<>> /\ InitSlots

\* DBClientPostgres::new() alone: the table may not exist yet
InitSetup ==
    /\ InitModels
    /\ schema \in BOOLEAN
    /\ table = <<>>
    /\ InitSlots

Init == InitModels /\ InitStore

\* the server after Server::start: init_db has kept the rows of an earlier
\* run, here one record
InitServer ==
    /\ InitModels
    /\ schema = TRUE
    /\ table = <<Row(<<"a">>, 100)>>
    /\ InitSlots

ClientStep(p) ==
    \/ get_employee_salary(p)
    \/ add_new_employee(p)
    \/ increase_begin(p)
    \/ increase_select(p)
    \/ increase_update(p)
    \/ increase_commit(p)

NextClient ==
    \E p \in Procs : DirectCall(p) \/ ClientStep(p) \/ DirectReturn(p)

NextServer ==
    \E p \in Procs :
        \/ HttpArrive(p)
        \/ handler_lock(p)
        \/ handler_lock_wake(p)
        \/ handler_check(p)
        \/ ClientStep(p)
        \/ handler_respond(p)
        \/ HttpComplete(p)

Next == NextClient \/ NextServer

\* the serving path of the client: init_db, get, add, increase
NextServing ==
    \/ NextClient
    \/ \E p \in Procs : DirectInitCall(p) \/ init_db(p)

NextSetup ==
    \E p \in Procs :
        \/ SetupCall(p)
        \/ init_db(p)
        \/ clear_begin(p)
        \/ clear_create(p)
        \/ clear_truncate(p)
        \/ clear_commit(p)
        \/ get_employee_salary(p)
        \/ add_new_employee(p)
        \/ DirectReturn(p)

\* models.rs alone
SpecModels == Init /\ [][NextModels]_vars

\* concurrent direct calls of the client
SpecClient == Init /\ [][NextClient]_vars

\* requests through the HTTP handlers
SpecServer == InitServer /\ [][NextServer]_vars

\* the handlers and direct calls together
Spec == Init /\ [][Next]_vars

\* concurrent direct calls of the client, init_db among them
SpecServing == Init /\ [][NextServing]_vars

\* the initializations, with add and get
SpecSetup == InitSetup /\ [][NextSetup]_vars

\* the handlers under the scheduling the runtime gives them: a handler whose
\* thread is free is polled again, a storage call returns, a lock() that
\* finds the Mutex free returns, a built response is sent; nothing is assumed
\* about the arrival of requests
FairServer ==
    \A p \in Procs :
        /\ WF_vars(handler_lock(p))
        /\ WF_vars(handler_lock_wake(p))
        /\ WF_vars(handler_check(p))
        /\ WF_vars(ClientStep(p))
        /\ WF_vars(handler_respond(p))
        /\ WF_vars(HttpComplete(p))

LiveSpecServer == InitServer /\ [][NextServer]_vars /\ FairServer

-----------------------------------------------------------------------------
(* Properties of models.rs, checked under SpecModels *)

IsIncrease == mcall.op = "increase_by_percentage"
Validated == mcall.amount > 0 /\ mcall.percentage > 0

\* for c > 0 and pct > 0: none of c * pct, c * pct + 100 and
\* c + (c * pct + 99) / 100 leaves the i32 range (stated with no product
\* that is out of range)
StaysInRange(c, pct) ==
    /\ c <= (I32Max - 100) \div pct
    /\ c <= I32Max - ((c * pct + 99) \div 100)

\* C3: for current > 0 and percentage > 0 with every arithmetic step inside
\* the i32 range, increase_by_percentage leaves the salary at
\* current + floor((current * percentage + 99) / 100) and returns Ok(current).
C3_RoundUpFormula ==
    (IsIncrease /\ Validated /\ StaysInRange(mcall.amount, mcall.percentage))
    => /\ mret.ok
       /\ mself = mcall.amount
                    + ((mcall.amount * mcall.percentage + 99) \div 100)
       /\ mret.val.amount = mcall.amount

\* (100, 25) gave new 125 and old 100, and (3, 25) rounded 0.75 up to 1
C3_Witness ==
    /\ IsIncrease
    /\ \/ mcall.amount = 100 /\ mcall.percentage = 25 /\ mself = 125
             /\ mret.ok /\ mret.val.amount = 100
       \/ mcall.amount = 3 /\ mcall.percentage = 25 /\ mself = 4 /\ mret.ok

\* C4: for current > 0 and percentage > 0, increase_by_percentage fails
\* exactly when current * percentage, current * percentage + 100 or
\* current + addition leaves the i32 range; it then reports the "too high"
\* error of the multiplication and the additions (never the error of the
\* subtraction or the division, never an invalid result) and leaves the
\* salary it was called on unchanged; when it succeeds the new salary is
\* inside the range and above the old one (no wrap).
C4_FailsExactlyOnOverflow ==
    (IsIncrease /\ Validated)
    => /\ mret.ok <=> StaysInRange(mcall.amount, mcall.percentage)
       /\ ~mret.ok => mret.err = MsgTooHigh /\ mself = mcall.amount
       /\ mret.ok => mself > mcall.amount /\ mself <= I32Max

\* (MAX_INT, 100) failed and left MAX_INT in place
C4_Witness ==
    /\ IsIncrease
    /\ mcall.amount = I32Max
    /\ mcall.percentage = 100
    /\ ~mret.ok
    /\ mself = I32Max

\* some character of the name is not whitespace
NonBlank(n) == \E i \in 1 .. Len(n) : n[i] \notin WhiteSpace

\* C5: each check returns Ok exactly when its predicate holds (name: the
\* name has a non-whitespace character; salary: amount > 0; employee data:
\* both; multiplier: name and percentage > 0) and an error otherwise; the
\* value it returns carries the raw fields unchanged, the name untrimmed.
C5_ChecksDecideTheirPredicates ==
    /\ mcall.op = "UncheckedEmployeeName::check"
       => /\ mret.ok <=> NonBlank(mcall.name)
          /\ mret.ok => mret.val.name = mcall.name
          /\ ~mret.ok => mret.err = MsgName
    /\ mcall.op = "UncheckedEmployeeSalary::check"
       => /\ mret.ok <=> mcall.amount > 0
          /\ mret.ok => mret.val.amount = mcall.amount
          /\ ~mret.ok => mret.err = MsgSalary
    /\ mcall.op = "UncheckedEmployeeData::check"
       => /\ mret.ok <=> (NonBlank(mcall.name) /\ mcall.amount > 0)
          /\ mret.ok => /\ mret.val.name = mcall.name
                        /\ mret.val.amount = mcall.amount
          /\ ~mret.ok => mret.err \in {MsgName, MsgSalary}
    /\ mcall.op = "UncheckedSalaryMultiplier::check"
       => /\ mret.ok <=> (NonBlank(mcall.name) /\ mcall.percentage > 0)
          /\ mret.ok => /\ mret.val.name = mcall.name
                        /\ mret.val.percentage = mcall.percentage
          /\ ~mret.ok => mret.err \in {MsgName, MsgPercentage}

\* a name with a leading space passed a check and came back untrimmed
C5_Witness ==
    /\ mcall.op = "UncheckedEmployeeData::check"
    /\ mcall.name = <<" ", "a">>
    /\ mret.ok
    /\ mret.val.name = <<" ", "a">>
    /\ mret.val.amount = mcall.amount

-----------------------------------------------------------------------------
(* Properties of the client, checked under SpecClient *)

\* row i is the only row of its name
UniqueName(i) ==
    \A j \in DOMAIN table : table[j].name = table[i].name => j = i

\* the salaries that applying the increases hist[i], i \in idx, one after
\* the other to salary s can end at, over every order in which each succeeds
RECURSIVE SerialOutcomes(_, _, _)
SerialOutcomes(s, hist, idx) ==
    IF idx = {} THEN {s}
    ELSE UNION {LET r == increase_by_percentage(s, hist[i])
                IN  IF r.ret.ok THEN SerialOutcomes(r.self, hist, idx \ {i})
                    ELSE {} : i \in idx}

\* C1: increases committed on one employee, concurrent or not, leave the
\* salary that applying all of them one after the other, in some order,
\* gives; no committed increase is lost.
C1_SerialComposition ==
    \A i \in DOMAIN table :
        UniqueName(i)
        => table[i].salary
             \in SerialOutcomes(table[i].orig, table[i].hist,
                                DOMAIN table[i].hist)

Returned(p, op) == pc[p] = "returned" /\ req[p].op = op

\* C2: a successful increase returns the salary that was stored under the
\* name immediately before its own update took effect.
C2_ReturnsStoredBefore ==
    \A p \in Procs :
        (Returned(p, "increase") /\ res[p].ok)
        => res[p].val.amount \in before[p]

\* the rows whose name is exactly n, compared character by character
RowsNamed(n) ==
    {i \in DOMAIN table :
        /\ Len(table[i].name) = Len(n)
        /\ \A k \in 1 .. Len(n) : table[i].name[k] = n[k]}

\* the row that an add of name n created on a store with no row of that name
First(n) == CHOOSE i \in RowsNamed(n) : \A j \in RowsNamed(n) : i <= j

\* C6 as stated: get_employee_salary(name) returns the salary s that
\* add_new_employee(name, s) stored when no row had that name, as long as no
\* increase on that name was committed since.
C6_RoundTripAsStated ==
    [][\A p \in Procs :
        (/\ get_employee_salary(p)
         /\ res'[p].ok
         /\ RowsNamed(req[p].name) # {}
         /\ table[First(req[p].name)].hist = <<>>)
        => res'[p].val.amount = table[First(req[p].name)].orig]_vars

\* C6 amended: the same, as long as neither an increase on that name was
\* committed nor another record of that name was added since.
C6_RoundTrip ==
    [][\A p \in Procs :
        (/\ get_employee_salary(p)
         /\ res'[p].ok
         /\ Cardinality(RowsNamed(req[p].name)) = 1
         /\ table[First(req[p].name)].hist = <<>>)
        => res'[p].val.amount = table[First(req[p].name)].orig]_vars

\* a get returned the salary of the one, never increased record of its name
\* while a record of another name held a different salary
C6_Witness ==
    \E p \in Procs :
        /\ Returned(p, "get")
        /\ res[p].ok
        /\ Cardinality(RowsNamed(req[p].name)) = 1
        /\ table[First(req[p].name)].hist = <<>>
        /\ res[p].val.amount = table[First(req[p].name)].orig
        /\ \E j \in DOMAIN table : table[j].salary # res[p].val.amount

\* the salaries stored under exactly the name of request p
StoredFor(p) == {table[i].salary : i \in RowsNamed(req[p].name)}

\* C7: get_employee_salary and increase_employee_salary fail whenever no
\* stored record has exactly the requested name, whatever other records
\* exist, and the salary either of them reads or returns is one stored
\* under exactly that name.
C7_ExactNameOnly ==
    [][\A p \in Procs :
        /\ get_employee_salary(p)
           => /\ StoredFor(p) = {} => ~res'[p].ok /\ pc'[p] = "returned"
              /\ res'[p].ok => res'[p].val.amount \in StoredFor(p)
        /\ increase_select(p)
           => /\ StoredFor(p) = {} => ~res'[p].ok /\ pc'[p] = "returned"
              /\ pc'[p] = "inc_update" => loc'[p].old \in StoredFor(p)
        /\ (increase_commit(p) /\ res'[p].ok)
           => res'[p].val.amount = loc[p].old]_vars

\* a get and an increase for "a" failed while the store held only "A"
C7_Witness ==
    /\ \E i \in DOMAIN table : table[i].name = <<"A">>
    /\ \A i \in DOMAIN table : table[i].name # <<"a">>
    /\ \E p \in Procs :
        /\ pc[p] = "returned"
        /\ req[p].op \in {"get", "increase"}
        /\ req[p].name = <<"a">>
        /\ res[p].err = MsgRowNotFound

ArithmeticMsgs == {MsgTooHigh, MsgTooLow, MsgSalary}

\* C9: an increase_employee_salary call that returned an error (name not
\* found, arithmetic failure, rejected UPDATE, failed commit, no
\* connection) has not changed any committed row and has left no
\* uncommitted write behind; after an arithmetic failure no UPDATE was sent.
C9_FailedIncreaseChangesNothing ==
    \A p \in Procs :
        (Returned(p, "increase") /\ ~res[p].ok)
        => /\ ~effect[p]
           /\ tx[p] = NoTx
           /\ res[p].err \in ArithmeticMsgs
              => issued[p] = <<"BEGIN", "SELECT">>

\* an increase failed at its commit, after its UPDATE, and another failed
\* in the arithmetic
C9_Witness ==
    \E p \in Procs :
        /\ Returned(p, "increase")
        /\ ~res[p].ok
        /\ \/ issued[p] = <<"BEGIN", "SELECT", "UPDATE", "COMMIT">>
           \/ res[p].err = MsgTooHigh

-----------------------------------------------------------------------------
(* Properties of the HTTP handlers, checked under SpecServer *)

\* the raw input of a request fails its validation
InvalidInput(r) ==
    \/ ~NonBlank(r.name)
    \/ r.op = "add" /\ r.amount <= 0
    \/ r.op = "increase" /\ r.percentage <= 0

ValidationMsgs == {MsgName, MsgSalary, MsgPercentage}

\* C8: a request whose raw input fails validation never reaches the store:
\* it sends no statement, creates no record, changes no stored salary, and
\* is answered 400 Bad Request with the validation message.
C8_InvalidInputNeverReachesStore ==
    \A p \in Procs :
        (req[p].via = "http" /\ InvalidInput(req[p]))
        => /\ pc[p] \in {"h_lock", "h_blocked", "h_check", "h_done"}
           /\ issued[p] = <<>>
           /\ ~effect[p]
           /\ tx[p] = NoTx
           /\ pc[p] = "h_done"
              => /\ resp[p].status = 400
                 /\ resp[p].text \in ValidationMsgs

\* an add with salary 0 was answered 400 while the store holds a record
C8_Witness ==
    \E p \in Procs :
        /\ pc[p] = "h_done"
        /\ req[p].op = "add"
        /\ req[p].amount = 0
        /\ NonBlank(req[p].name)
        /\ resp[p].status = 400
        /\ table # <<>>

\* request p has been answered with a failure
Failed(p) == pc[p] = "h_done" /\ (InvalidInput(req[p]) \/ ~res[p].ok)

\* the failure of request p: the error its validation or its client call
\* ended with
KindOfMsg(m) ==
    IF m \in ValidationMsgs \cup ArithmeticMsgs THEN "validation or arithmetic"
    ELSE IF m = MsgRowNotFound THEN "not found"
    ELSE IF m = MsgStorage THEN "storage unavailable"
    ELSE "none"

KindOf(p) ==
    IF InvalidInput(req[p]) THEN "validation or arithmetic"
    ELSE KindOfMsg(res[p].err)

\* C10 as stated: failures of different kinds (validation or arithmetic,
\* not found, storage unavailable) are answered with different outcomes,
\* that is, with different HTTP statuses.
C10_KindsAnsweredDifferently ==
    \A p, q \in Procs :
        (Failed(p) /\ Failed(q) /\ KindOf(p) # KindOf(q))
        => resp[p].status # resp[q].status

\* C10 amended: every failed request, of whatever kind, is answered with the
\* same status 400 Bad Request; its body is the message of the error it
\* ended with, and only that text tells the three kinds apart.
C10_EveryFailureIsBadRequest ==
    \A p \in Procs :
        Failed(p)
        => /\ resp[p].status = 400
           /\ InvalidInput(req[p]) => resp[p].text \in ValidationMsgs
           /\ ~InvalidInput(req[p]) => resp[p].text = res[p].err
           /\ KindOfMsg(resp[p].text) = KindOf(p)

\* a not-found failure and a failure of another kind, both answered 400
C10_Witness ==
    \E p, q \in Procs :
        /\ Failed(p)
        /\ Failed(q)
        /\ KindOf(p) = "not found"
        /\ KindOf(q) \in {"validation or arithmetic", "storage unavailable"}
        /\ resp[p].status = 400
        /\ resp[q].status = 400

-----------------------------------------------------------------------------
(* The shared Mutex of server.rs, checked under SpecServer/LiveSpecServer *)

\* request p is between taking the Mutex and building its response
HoldsLock(p) ==
    /\ req[p].via = "http"
    /\ pc[p] \notin {"idle", "h_lock", "h_blocked", "h_done"}

\* request p is inside a call of the client: a statement of it is in flight
\* or about to be sent
InStorage(p) ==
    pc[p] \in {"get_fetch", "add_execute", "inc_begin", "inc_select",
               "inc_update", "inc_commit"}

\* C11: every request that reached a handler is eventually answered, every
\* storage call returning; no handler waits for the Mutex forever.
C11_EveryRequestAnswered ==
    \A p \in Procs : (pc[p] = "h_lock") ~> (pc[p] = "h_done")

\* C12: requests on different names do not wait for one another: no request
\* waits in lock() while the request holding the Mutex is inside a storage
\* call for another name.
C12_DifferentNamesDoNotWait ==
    \A p, q \in Procs :
        ~(/\ pc[p] = "h_blocked"
          /\ mutex = q
          /\ InStorage(q)
          /\ NonBlank(req[p].name)
          /\ req[p].name # req[q].name)

\* the statements of request q happen between the SELECT and the end of the
\* increase of request p
InsideIncrease(p) == pc[p] \in {"inc_update", "inc_commit"}

\* C16: a handler holds the Mutex from before the validation of its input
\* until its response is built: the requests past lock() and not yet
\* answered are exactly the holder, so at most one request is inside a
\* storage call or owns a transaction, and while an increase is between its
\* SELECT and its commit no other request sends a statement or changes the
\* table, whatever the names.
C16_HandlersSerialized ==
    /\ \A p \in Procs : HoldsLock(p) <=> mutex = p
    /\ \A p, q \in Procs : (InStorage(p) /\ InStorage(q)) => p = q
    /\ \A p \in Procs : tx[p].open => mutex = p
    /\ \A p, q \in Procs :
        (InsideIncrease(p) /\ q # p)
        => /\ pc[q] \in {"idle", "h_lock", "h_blocked", "h_done"}
           /\ pc[q] \in {"h_lock", "h_blocked"} => issued[q] = <<>>

\* an increase for "a" is between its SELECT and its commit while another
\* request, for the blank name, waits in lock()
C16_Witness ==
    \E p, q \in Procs :
        /\ InsideIncrease(p)
        /\ mutex = p
        /\ pc[q] = "h_blocked"
        /\ req[q].name # req[p].name

-----------------------------------------------------------------------------
(* Properties of the initializations, checked under SpecSetup *)

\* every row of t1 is a row of t2, with the same id, name and salary
Kept(t1, t2) ==
    /\ Len(t2) >= Len(t1)
    /\ \A i \in DOMAIN t1 : t2[i] = t1[i]

\* C13: init_db leaves the rows as they are and, once it has succeeded, the
\* table exists; on an existing table it can succeed and then changes
\* nothing at all, so a second init_db leaves what the first left; rows
\* disappear only at the commit of init_db_clear, after which the table
\* exists and holds no row.
C13_InitIdempotentNonDestructive ==
    /\ [](\A p \in Procs :
            (pc[p] = "init_create" /\ schema)
            => ENABLED (init_db(p) /\ res'[p].ok))
    /\ [][\A p \in Procs :
            /\ init_db(p)
               => /\ table' = table
                  /\ schema => schema'
                  /\ res'[p].ok => schema'
            /\ (clear_commit(p) /\ res'[p].ok)
               => /\ table' = <<>>
                  /\ schema'
            /\ ~Kept(table, table') => \E q \in Procs : clear_commit(q)]_vars

\* init_db has succeeded twice, the second time on the result of the first,
\* and the record added before is still there
C13_Witness ==
    /\ schema
    /\ table # <<>>
    /\ \A p \in Procs :
        /\ Returned(p, "init_db")
        /\ res[p].ok

-----------------------------------------------------------------------------
(* Stored salaries, checked under SpecServer *)

\* request p, an increase with valid input, has come back from the client
IncreaseDone(p) ==
    /\ req[p].via = "http"
    /\ req[p].op = "increase"
    /\ ~InvalidInput(req[p])
    /\ pc[p] = "returned"

\* C14: with every request entering through the checks of the handlers,
\* each stored salary, and each salary written by an open transaction, is
\* > 0 and at most i32::MAX; an increase that cannot stay in that range for
\* any salary stored under its name fails and changes nothing.
C14_StoredSalariesPositive ==
    /\ \A i \in DOMAIN table :
        table[i].salary > 0 /\ table[i].salary <= I32Max
    /\ \A p \in Procs :
        tx[p].rows # {} => tx[p].salary > 0 /\ tx[p].salary <= I32Max
    /\ \A p \in Procs :
        (/\ IncreaseDone(p)
         /\ \A c \in StoredFor(p) : ~StaysInRange(c, req[p].percentage))
        => /\ ~res[p].ok
           /\ ~effect[p]
           /\ tx[p] = NoTx

\* an increase of the stored 100 by i32::MAX percent has failed as too high
\* and the record still holds 100
C14_Witness ==
    \E p \in Procs :
        /\ IncreaseDone(p)
        /\ req[p].percentage = I32Max
        /\ res[p].err = MsgTooHigh
        /\ StoredFor(p) = {100}

-----------------------------------------------------------------------------
(* What each call may change, checked under SpecServing *)

\* p commits an increase in this step
CommitsIncrease(p) == increase_commit(p) /\ res'[p].ok

\* C15: no step of init_db, get, add or increase removes a row or changes
\* the name of one; a stored salary changes only in the commit of a
\* successful increase on that row's own name; init_db and
\* get_employee_salary change no row at all, add_new_employee changes no
\* existing row, an increase changes no row of another name.
C15_OnlyIncreaseChangesItsOwnName ==
    [][/\ Len(table') >= Len(table)
       /\ \A i \in DOMAIN table :
            /\ table'[i].name = table[i].name
            /\ table'[i].salary # table[i].salary
               => \E p \in Procs :
                    CommitsIncrease(p) /\ req[p].name = table[i].name
       /\ \A p \in Procs :
            /\ (get_employee_salary(p) \/ init_db(p)) => table' = table
            /\ add_new_employee(p) => Kept(table, table')
            /\ (increase_begin(p) \/ increase_select(p) \/ increase_update(p)
                  \/ increase_commit(p))
               => \A i \in DOMAIN table :
                    table[i].name # req[p].name => table'[i] = table[i]]_vars

\* an increase for "a" has been committed and has changed the salary stored
\* for "a", while the record of "A" holds the salary it was added with
C15_Witness ==
    /\ \E i, j \in DOMAIN table :
        /\ table[i].name = <<"a">>
        /\ table[i].salary # table[i].orig
        /\ table[j].name = <<"A">>
        /\ table[j].salary = table[j].orig
    /\ \E p \in Procs : Returned(p, "increase") /\ res[p].ok

-----------------------------------------------------------------------------
(* Growth of the stored salary, checked under SpecClient *)

\* C17: the salary stored for a name never decreases, and the commit of an
\* increase on that name raises it by at least 1 (rows that are the only
\* one of their name).
C17_SalaryNeverDecreases ==
    [][\A i \in DOMAIN table :
        UniqueName(i)
        => /\ table'[i].salary >= table[i].salary
           /\ \A p \in Procs :
                (CommitsIncrease(p) /\ req[p].name = table[i].name)
                => table'[i].salary >= table[i].salary + 1]_vars

-----------------------------------------------------------------------------
(* Records sharing a name, checked under SpecClient *)

\* C18: an add can succeed whatever names are stored, and a successful add
\* appends exactly one record with its name and salary (nothing else
\* changes the number of records); the UPDATE of an increase takes every
\* record of the name and one new salary, computed from the one salary the
\* SELECT returned, and its commit leaves each of those records with that
\* salary.
C18_DuplicateNames ==
    /\ [](\A p \in Procs :
            pc[p] = "add_execute"
            => ENABLED (add_new_employee(p) /\ res'[p].ok))
    /\ [][/\ Len(table') # Len(table)
              => \E q \in Procs : add_new_employee(q) /\ res'[q].ok
           /\ \A p \in Procs :
                /\ add_new_employee(p)
                   => table' = IF res'[p].ok
                               THEN Append(table, Row(req[p].name,
                                                      req[p].amount))
                               ELSE table
                /\ (increase_update(p) /\ pc'[p] = "inc_commit")
                   => /\ tx'[p].rows = RowsNamed(req[p].name)
                      /\ tx'[p].salary
                           = increase_by_percentage(
                                 loc[p].old, req[p].percentage).self
                /\ CommitsIncrease(p)
                   => \A i \in tx[p].rows :
                        table'[i].salary = tx[p].salary]_vars

\* two records of one name, added with different salaries, hold the same
\* salary after one committed increase on that name
C18_Witness ==
    \E i, j \in DOMAIN table :
        /\ i # j
        /\ table[i].name = table[j].name
        /\ table[i].orig # table[j].orig
        /\ table[i].hist # <<>>
        /\ table[j].hist = table[i].hist
        /\ table[i].salary = table[j].salary

=============================================================================
